---- MODULE Spec2Model ----
(***************************************************************************)
(* Organization datasource connections API (src/main.py).                  *)
(*                                                                         *)
(* The module-level dict DUMMY_CONNECTIONS is the only program state.      *)
(* Three route handlers read or update it: get_connections,                *)
(* get_connection_by_id and patch_connection.  The request body of PATCH   *)
(* is validated against PatchConnectionRequest before the handler runs.    *)
(*                                                                         *)
(* Python values are encoded as follows.                                   *)
(*   Optional[x]   : <<>> is None, <<v>> is the value v                    *)
(*   dict          : a sequence of [key, value] entries in insertion order *)
(*   str           : a TLA+ string                                         *)
(*   datetime      : [date, time, utcoffset], utcoffset an Optional number *)
(*                   of minutes (None for a naive datetime)                *)
(*   JSON string   : the sequence of its lexemes; Text joins them          *)
(***************************************************************************)
EXTENDS Integers, Sequences, FiniteSets, TLC

VARIABLES
    connections,   \* the live contents of the dict DUMMY_CONNECTIONS
    union_mode,    \* how the installed pydantic resolves Union[datetime, str]
    inflight,      \* per client: the request received and not yet served
    overtaken,     \* per client: value written to the same record by an
                   \* update served while this client's update was in flight
    lastUpdate,    \* per key: lastSyncAt_iso of the update served last
    last           \* the call served last, with its response

vars == <<connections, union_mode, inflight, overtaken, lastUpdate, last>>

None == <<>>

Some(v) == <<v>>

----------------------------------------------------------------------------
(* Bounds and input universes *)

NumClients == 2

Clients == 1..NumClients

SeqClients == {1}

PathIds == {"conn_001", "conn_002", "conn_999"}

UnionModes == {"left_to_right", "smart"}

----------------------------------------------------------------------------
(* The fixture, src/main.py 61-90 *)

\* Faulty fixture: the second record carries the first record's id.
DUMMY_CONNECTIONS_copied_id ==
    << [key |-> "conn_001",
        value |-> [id |-> "conn_001",
                   credentials |->
                     [AppName |-> "Perry", AppSecret |-> "s1", AppKey |-> "k1",
                      BaseURL |-> "https://cloud.hhaexchange.com"],
                   foundry_config |->
                     [profiles_dataset_rid |-> "p1", visits_dataset_rid |-> "v1"],
                   lastSyncAt |-> None]],
       [key |-> "conn_002",
        value |-> [id |-> "conn_001",
                   credentials |->
                     [AppName |-> "Perry", AppSecret |-> "s2", AppKey |-> "k2",
                      BaseURL |-> "https://app2.hhaexchange.com"],
                   foundry_config |->
                     [profiles_dataset_rid |-> "p2", visits_dataset_rid |-> "v2"],
                   lastSyncAt |-> Some("2026-02-16T08:30:00+00:00")]] >>

DUMMY_CONNECTIONS ==
    << [key |-> "conn_001",
        value |-> [id |-> "conn_001",
                   credentials |->
                     [AppName |-> "Perry",
                      AppSecret |-> "876442f4-6468-4f0e-bbbe-c97f82aa1e86",
                      AppKey |-> "MQAwADMANwA4ADEANwAtADIARQA0ADQAQgBEAEQAOQA1ADIAOQA1ADQAQQBGAEYARAA3ADkAMQBCADgARQBCADUANQBDADgAOABEAA==",
                      BaseURL |-> "https://cloud.hhaexchange.com"],
                   foundry_config |->
                     [profiles_dataset_rid |-> "ri.foundry.main.dataset.11c3e68b-7bfc-4783-82df-a8865663ca8b",
                      visits_dataset_rid |-> "ri.foundry.main.dataset.57a68f07-1a41-43ea-a188-3611d68f83c5"],
                   lastSyncAt |-> None]],
       [key |-> "conn_002",
        value |-> [id |-> "conn_002",
                   credentials |->
                     [AppName |-> "Perry",
                      AppSecret |-> "443ac9ad-6ac6-4c8f-855b-6460b3d99288",
                      AppKey |-> "MQA2ADQANgAxADQALQAxADcAOQA4ADAAMABBAEQAMABEADYARQAwAEQAMgA5ADcAQwAyAEUANgAzAEQAOABGADQAMAA0ADkAOAA=",
                      BaseURL |-> "https://app2.hhaexchange.com"],
                   foundry_config |->
                     [profiles_dataset_rid |-> "ri.foundry.main.dataset.a64b4790-85ba-49ef-b320-d077ac044637",
                      visits_dataset_rid |-> "ri.foundry.main.dataset.dec9dedd-23f5-4a15-ba7d-672226944caf"],
                   lastSyncAt |-> Some("2026-02-16T08:30:00+00:00")]] >>

----------------------------------------------------------------------------
(* dict operations *)

Keys(d) == { d[i].key : i \in DOMAIN d }

\* dict.get(k): the value stored under k, or None
dict_get(d, k) ==
    IF \E i \in DOMAIN d : d[i].key = k
    THEN Some(d[CHOOSE i \in DOMAIN d : d[i].key = k].value)
    ELSE None

\* list(d.values())
dict_values(d) == [i \in DOMAIN d |-> d[i].value]

\* d[k]["lastSyncAt"] = v, on the record object stored under k
set_lastSyncAt(d, k, v) ==
    [i \in DOMAIN d |->
        IF d[i].key = k THEN [d[i] EXCEPT !.value.lastSyncAt = v] ELSE d[i]]

----------------------------------------------------------------------------
(* Strings and datetimes *)

RECURSIVE Text(_)
\* the str a JSON string denotes: its lexemes joined
Text(toks) == IF toks = <<>> THEN "" ELSE Head(toks) \o Text(Tail(toks))

DateLexemes == {"2026-02-16", "1970-01-01"}

TimeLexemes == {"08:30:00", "00:00:00"}

SeparatorLexemes == {"T", " "}

\* UTC offset lexemes a datetime parser accepts, with the minutes they denote
OffsetMinutes(lexeme) ==
    CASE lexeme = "Z" -> 0
      [] lexeme = "+00:00" -> 0
      [] lexeme = "+01:00" -> 60

OffsetLexemes == {"Z", "+00:00", "+01:00"}

\* whether pydantic's datetime validator accepts the string
ParsesAsDatetime(toks) ==
    /\ Len(toks) \in {3, 4}
    /\ toks[1] \in DateLexemes
    /\ toks[2] \in SeparatorLexemes
    /\ toks[3] \in TimeLexemes
    /\ Len(toks) = 4 => toks[4] \in OffsetLexemes

\* the datetime the validator builds from an accepted string
ParseDatetime(toks) ==
    [date |-> toks[1],
     time |-> toks[3],
     utcoffset |-> IF Len(toks) = 4 THEN Some(OffsetMinutes(toks[4])) ELSE None]

TwoDigits(n) == IF n < 10 THEN "0" \o ToString(n) ELSE ToString(n)

\* the datetime the validator builds from a JSON number: seconds since the
\* epoch, in UTC (numbers below one day, so the date is the epoch's)
FromTimestamp(n) ==
    [date |-> "1970-01-01",
     time |-> TwoDigits(n \div 3600) \o ":" \o TwoDigits((n \div 60) % 60)
              \o ":" \o TwoDigits(n % 60),
     utcoffset |-> Some(0)]

\* the text of a UTC offset as datetime.isoformat() prints it
OffsetText(minutes) ==
    (IF minutes < 0 THEN "-" ELSE "+")
    \o TwoDigits((IF minutes < 0 THEN -minutes ELSE minutes) \div 60)
    \o ":" \o TwoDigits((IF minutes < 0 THEN -minutes ELSE minutes) % 60)

\* datetime.isoformat(): separator T, offset as +HH:MM, none when naive
isoformat(dt) ==
    dt.date \o "T" \o dt.time
    \o (IF dt.utcoffset = None THEN "" ELSE OffsetText(dt.utcoffset[1]))

----------------------------------------------------------------------------
(* PatchConnectionRequest, src/main.py 41-51 *)

\* The JSON value under the key lastSyncAt of a PATCH body: None when the key
\* is missing, else Some of a null, an object, a number or a string.
JsonNull == [null |-> TRUE]

JsonObject == [object |-> TRUE]

JsonNumber(n) == [number |-> n]

JsonString(toks) == [string |-> toks]

\* Faulty validation: the field has a default, so a body without it passes.
Validate_default(field, mode) ==
    IF field = None
    THEN [ok |-> TRUE, payload |-> [str |-> ""]]
    ELSE LET json == field[1] IN
         IF "number" \in DOMAIN json
         THEN [ok |-> TRUE, payload |-> [dt |-> FromTimestamp(json.number)]]
         ELSE IF "string" \in DOMAIN json
         THEN IF mode = "left_to_right" /\ ParsesAsDatetime(json.string)
              THEN [ok |-> TRUE, payload |-> [dt |-> ParseDatetime(json.string)]]
              ELSE [ok |-> TRUE, payload |-> [str |-> Text(json.string)]]
         ELSE [ok |-> FALSE, loc |-> <<"body", "lastSyncAt">>, type |-> "invalid"]

\* Validation of the required field lastSyncAt: Union[datetime, str].
\* A payload is [dt |-> datetime] or [str |-> string].
\* left_to_right: the first member of the Union that accepts the input wins.
\* smart: a member that matches the input's own type wins, so a JSON string
\* stays a str.  A number is accepted by datetime only; null and objects by
\* neither.
Validate(field, mode) ==
    IF field = None
    THEN [ok |-> FALSE, loc |-> <<"body", "lastSyncAt">>, type |-> "missing"]
    ELSE LET json == field[1] IN
         IF "number" \in DOMAIN json
         THEN [ok |-> TRUE, payload |-> [dt |-> FromTimestamp(json.number)]]
         ELSE IF "string" \in DOMAIN json
         THEN IF mode = "left_to_right" /\ ParsesAsDatetime(json.string)
              THEN [ok |-> TRUE, payload |-> [dt |-> ParseDatetime(json.string)]]
              ELSE [ok |-> TRUE, payload |-> [str |-> Text(json.string)]]
         ELSE [ok |-> FALSE, loc |-> <<"body", "lastSyncAt">>, type |-> "invalid"]

\* PatchConnectionRequest.lastSyncAt_iso
lastSyncAt_iso(payload) ==
    IF "dt" \in DOMAIN payload
    THEN isoformat(payload.dt)
    ELSE payload.str

----------------------------------------------------------------------------
(* Route handlers.  Each is the handler's body as a function of the dict and *)
(* the handler's arguments; it yields the dict it leaves and its response.  *)

NotFoundDetail(organization_datasource_id) ==
    "Connection '" \o organization_datasource_id \o "' not found."

\* src/main.py 99-104
get_connections(d) ==
    [connections |-> d,
     status |-> 200,
     body |-> [items |-> dict_values(d)]]

\* Faulty handler: the error is returned as a body, not raised.
get_connection_by_id_returns_error(d, organization_datasource_id) ==
    LET connection == dict_get(d, organization_datasource_id) IN
    IF connection = None
    THEN [connections |-> d,
          status |-> 200,
          body |-> [detail |-> NotFoundDetail(organization_datasource_id)]]
    ELSE [connections |-> d,
          status |-> 200,
          body |-> connection[1]]

\* src/main.py 113-130
get_connection_by_id(d, organization_datasource_id) ==
    LET connection == dict_get(d, organization_datasource_id) IN
    IF connection = None
    THEN [connections |-> d,
          status |-> 404,
          body |-> [detail |-> NotFoundDetail(organization_datasource_id)]]
    ELSE [connections |-> d,
          status |-> 200,
          body |-> connection[1]]

\* str(datetime): as isoformat, with a space for the T
python_str(payload) ==
    IF "dt" \in DOMAIN payload
    THEN payload.dt.date \o " " \o payload.dt.time
         \o (IF payload.dt.utcoffset = None THEN ""
             ELSE OffsetText(payload.dt.utcoffset[1]))
    ELSE payload.str

PatchOk(d, organization_datasource_id, payload) ==
    [connections |-> d,
     status |-> 200,
     body |-> [id |-> organization_datasource_id,
               lastSyncAt |-> lastSyncAt_iso(payload),
               message |-> "lastSyncAt updated successfully"]]

PatchNotFound(d, organization_datasource_id) ==
    [connections |-> d,
     status |-> 404,
     body |-> [detail |-> NotFoundDetail(organization_datasource_id)]]

\* Faulty handler: stores the field as text without lastSyncAt_iso.
patch_connection_stores_field(d, organization_datasource_id, payload) ==
    IF dict_get(d, organization_datasource_id) = None
    THEN PatchNotFound(d, organization_datasource_id)
    ELSE PatchOk(set_lastSyncAt(d, organization_datasource_id,
                                Some(python_str(payload))),
                 organization_datasource_id, payload)

\* Faulty handler: an unknown id creates a record.
patch_connection_upsert(d, organization_datasource_id, payload) ==
    IF dict_get(d, organization_datasource_id) = None
    THEN PatchOk(Append(d, [key |-> organization_datasource_id,
                            value |-> [id |-> organization_datasource_id,
                                       lastSyncAt |-> Some(lastSyncAt_iso(payload))]]),
                 organization_datasource_id, payload)
    ELSE PatchOk(set_lastSyncAt(d, organization_datasource_id,
                                Some(lastSyncAt_iso(payload))),
                 organization_datasource_id, payload)

\* Faulty handler: pops the record and inserts the updated one again, which
\* moves it to the end of the dict.
patch_connection_reinsert(d, organization_datasource_id, payload) ==
    IF dict_get(d, organization_datasource_id) = None
    THEN PatchNotFound(d, organization_datasource_id)
    ELSE LET updated == set_lastSyncAt(d, organization_datasource_id,
                                       Some(lastSyncAt_iso(payload)))
         IN PatchOk(SelectSeq(updated, LAMBDA e : e.key # organization_datasource_id)
                    \o SelectSeq(updated, LAMBDA e : e.key = organization_datasource_id),
                    organization_datasource_id, payload)

\* Faulty handler: sets lastSyncAt on every record.
patch_connection_all_records(d, organization_datasource_id, payload) ==
    IF dict_get(d, organization_datasource_id) = None
    THEN PatchNotFound(d, organization_datasource_id)
    ELSE PatchOk([i \in DOMAIN d |->
                     [d[i] EXCEPT !.value.lastSyncAt = Some(lastSyncAt_iso(payload))]],
                 organization_datasource_id, payload)

\* Faulty handler: a str payload is stored as None.
patch_connection_clears_unparsed(d, organization_datasource_id, payload) ==
    IF dict_get(d, organization_datasource_id) = None
    THEN PatchNotFound(d, organization_datasource_id)
    ELSE PatchOk(set_lastSyncAt(d, organization_datasource_id,
                                IF "dt" \in DOMAIN payload
                                THEN Some(lastSyncAt_iso(payload))
                                ELSE None),
                 organization_datasource_id, payload)

\* Faulty handler: writes only to a record never synced.
patch_connection_write_once(d, organization_datasource_id, payload) ==
    LET connection == dict_get(d, organization_datasource_id) IN
    IF connection = None
    THEN PatchNotFound(d, organization_datasource_id)
    ELSE IF connection[1].lastSyncAt = None
    THEN PatchOk(set_lastSyncAt(d, organization_datasource_id,
                                Some(lastSyncAt_iso(payload))),
                 organization_datasource_id, payload)
    ELSE PatchOk(d, organization_datasource_id, payload)

\* src/main.py 139-164
patch_connection(d, organization_datasource_id, payload) ==
    LET connection == dict_get(d, organization_datasource_id) IN
    IF connection = None
    THEN [connections |-> d,
          status |-> 404,
          body |-> [detail |-> NotFoundDetail(organization_datasource_id)]]
    ELSE [connections |->
              set_lastSyncAt(d, organization_datasource_id,
                             Some(lastSyncAt_iso(payload))),
          status |-> 200,
          body |-> [id |-> organization_datasource_id,
                    lastSyncAt |-> lastSyncAt_iso(payload),
                    message |-> "lastSyncAt updated successfully"]]

\* The framework's answer to a body PatchConnectionRequest rejects; the
\* handler is not called.
request_validation_error(d, error) ==
    [connections |-> d,
     status |-> 422,
     body |-> [loc |-> error.loc, type |-> error.type]]

----------------------------------------------------------------------------
(* Requests *)

ListRequest == [method |-> "GET", id |-> None, field |-> None]

GetRequest(id) == [method |-> "GET", id |-> Some(id), field |-> None]

PatchRequest(id, field) == [method |-> "PATCH", id |-> Some(id), field |-> field]

ScenarioString == <<"2026-02-16", "T", "08:30:00", "+00:00">>

ZuluString == <<"2026-02-16", "T", "08:30:00", "Z">>

FreeTextString == <<"not-a-date">>

Fields ==
    {None, Some(JsonNull), Some(JsonObject), Some(JsonNumber(0)),
     Some(JsonString(ScenarioString)), Some(JsonString(ZuluString)),
     Some(JsonString(FreeTextString))}

Requests ==
    {ListRequest}
    \cup { GetRequest(id) : id \in PathIds }
    \cup { PatchRequest(id, f) : id \in PathIds, f \in Fields }

\* the requests the concurrent clients send
ConcFields == {Some(JsonNumber(0)), Some(JsonString(ZuluString))}

ConcRequests ==
    {GetRequest("conn_001")}
    \cup { PatchRequest(id, f) : id \in {"conn_001", "conn_002"}, f \in ConcFields }

IsList(r) == r.method = "GET" /\ r.id = None

IsGet(r) == r.method = "GET" /\ r.id # None

IsPatch(r) == r.method = "PATCH" /\ r.id # None

\* the validated body of a PATCH request
Validated(r) == Validate(r.field, union_mode)

----------------------------------------------------------------------------
(* Actions *)

Init ==
    /\ connections = DUMMY_CONNECTIONS
    /\ union_mode \in UnionModes
    /\ inflight = [c \in Clients |-> None]
    /\ overtaken = [c \in Clients |-> None]
    /\ lastUpdate = [k \in PathIds |-> None]
    /\ last = None

\* a client's request arrives
Send(c, r) ==
    /\ inflight[c] = None
    /\ inflight' = [inflight EXCEPT ![c] = Some(r)]
    /\ UNCHANGED <<connections, union_mode, overtaken, lastUpdate, last>>

\* the response of a served call leaves; the dict is what the handler left
Respond(c, r, result) ==
    /\ connections' = result.connections
    /\ last' = Some([client |-> c, request |-> r, status |-> result.status,
                     body |-> result.body, raced |-> overtaken[c]])
    /\ inflight' = [inflight EXCEPT ![c] = None]
    /\ UNCHANGED union_mode

ServeList(c) ==
    /\ inflight[c] # None
    /\ IsList(inflight[c][1])
    /\ Respond(c, inflight[c][1], get_connections(connections))
    /\ UNCHANGED <<overtaken, lastUpdate>>

ServeGet(c) ==
    /\ inflight[c] # None
    /\ IsGet(inflight[c][1])
    /\ Respond(c, inflight[c][1],
               get_connection_by_id(connections, inflight[c][1].id[1]))
    /\ UNCHANGED <<overtaken, lastUpdate>>

ServeInvalid(c) ==
    /\ inflight[c] # None
    /\ IsPatch(inflight[c][1])
    /\ ~Validated(inflight[c][1]).ok
    /\ Respond(c, inflight[c][1],
               request_validation_error(connections, Validated(inflight[c][1])))
    /\ UNCHANGED <<overtaken, lastUpdate>>

ServePatch(c) ==
    /\ inflight[c] # None
    /\ IsPatch(inflight[c][1])
    /\ Validated(inflight[c][1]).ok
    /\ LET r == inflight[c][1]
           id == r.id[1]
           payload == Validated(r).payload
           result == patch_connection(connections, id, payload)
           written == Some(lastSyncAt_iso(payload))
       IN /\ Respond(c, r, result)
          /\ IF result.status = 200
             THEN /\ lastUpdate' = [lastUpdate EXCEPT ![id] = written]
                  /\ overtaken' =
                       [o \in Clients |->
                          IF o # c /\ inflight[o] # None /\ IsPatch(inflight[o][1])
                             /\ inflight[o][1].id = r.id
                          THEN written
                          ELSE IF o = c THEN None ELSE overtaken[o]]
             ELSE /\ overtaken' = [overtaken EXCEPT ![c] = None]
                  /\ UNCHANGED lastUpdate

\* one request at a time, over every request
Next ==
    \/ \E c \in SeqClients, r \in Requests : Send(c, r)
    \/ \E c \in SeqClients : ServeList(c)
    \/ \E c \in SeqClients : ServeGet(c)
    \/ \E c \in SeqClients : ServeInvalid(c)
    \/ \E c \in SeqClients : ServePatch(c)

Spec == Init /\ [][Next]_vars

\* several clients whose reads and updates are in flight together
ConcNext ==
    \/ \E c \in Clients, r \in ConcRequests : Send(c, r)
    \/ \E c \in Clients : ServeGet(c)
    \/ \E c \in Clients : ServePatch(c)

ConcSpec == Init /\ [][ConcNext]_vars

----------------------------------------------------------------------------
(* Properties *)

\* a step that serves a request; last' then describes the call served
ServedStep == \E c \in Clients : inflight[c] # None /\ inflight'[c] = None

\* the string a PATCH body's field is normalized to
Normalize(field) == lastSyncAt_iso(Validate(field, union_mode).payload)

SuccessMessage == "lastSyncAt updated successfully"

SeededKeys == [i \in DOMAIN DUMMY_CONNECTIONS |-> DUMMY_CONNECTIONS[i].key]

EpochIso == "1970-01-01T00:00:00+00:00"

C2_UnknownIdUpdate ==
    [][ServedStep =>
        LET e == last'[1] IN
        (/\ IsPatch(e.request)
         /\ Validated(e.request).ok
         /\ e.request.id[1] \notin Keys(connections)) =>
            /\ e.status = 404
            /\ e.body = [detail |-> "Connection '" \o e.request.id[1]
                                    \o "' not found."]
            /\ connections' = connections
    ]_vars

C2_Witness ==
    /\ last # None
    /\ IsPatch(last[1].request)
    /\ last[1].request.id = Some("conn_999")
    /\ last[1].request.field = Some(JsonString(ScenarioString))
    /\ last[1].status = 404
    /\ last[1].body = [detail |-> "Connection 'conn_999' not found."]
    /\ lastUpdate["conn_001"] # None

\* C3: a get answers 404 exactly when its id is not a key of the dict and
\* otherwise returns the stored record; neither a get nor a list changes the
\* dict.
C3_GetReadsOnly ==
    [][ServedStep =>
        LET e == last'[1]
            id == e.request.id[1]
        IN /\ IsGet(e.request) =>
                /\ (e.status = 404) <=> (id \notin Keys(connections))
                /\ id \in Keys(connections) =>
                     /\ e.status = 200
                     /\ e.body = dict_get(connections, id)[1]
                /\ id \notin Keys(connections) =>
                     e.body = [detail |-> "Connection '" \o id \o "' not found."]
                /\ connections' = connections
           /\ IsList(e.request) => connections' = connections
    ]_vars

C3_Witness ==
    /\ last # None
    /\ IsGet(last[1].request)
    /\ last[1].request.id = Some("conn_999")
    /\ last[1].status = 404
    /\ connections # DUMMY_CONNECTIONS

\* C4: every stored record has a non-empty id equal to its key, so a
\* successful get returns a record whose id is the id asked for.
C4_IdMatchesKey ==
    /\ \A i \in DOMAIN connections :
          /\ connections[i].value.id = connections[i].key
          /\ connections[i].key # ""
    /\ (last # None /\ IsGet(last[1].request) /\ last[1].status = 200) =>
          last[1].body.id = last[1].request.id[1]

C4_Witness ==
    /\ last # None
    /\ IsGet(last[1].request)
    /\ last[1].request.id = Some("conn_002")
    /\ last[1].status = 200
    /\ last[1].body.id = "conn_002"
    /\ lastUpdate["conn_002"] # None

\* C5: the keys of the dict stay the seeded keys in the seeded order; a list
\* returns one record per seeded key in that order, and a get of each listed
\* record's id returns that record.
C5_ListIsSeededSet ==
    /\ [i \in DOMAIN connections |-> connections[i].key] = SeededKeys
    /\ (last # None /\ IsList(last[1].request)) =>
          /\ last[1].status = 200
          /\ Len(last[1].body.items) = Len(DUMMY_CONNECTIONS)
          /\ \A i \in DOMAIN last[1].body.items :
                /\ last[1].body.items[i].id = SeededKeys[i]
                /\ get_connection_by_id(connections, last[1].body.items[i].id)
                     = [connections |-> connections, status |-> 200,
                        body |-> last[1].body.items[i]]

C5_Witness ==
    /\ last # None
    /\ IsList(last[1].request)
    /\ Len(last[1].body.items) = 2
    /\ last[1].body.items[1].lastSyncAt = Some("not-a-date")
    /\ last[1].body.items[2].lastSyncAt = Some(EpochIso)

\* C6: a step changes nothing of the dict but lastSyncAt, and only of the
\* record a successful update names.
C6_OnlyLastSyncAtChanges ==
    [][/\ Len(connections') = Len(connections)
       /\ \A i \in DOMAIN connections :
             /\ connections'[i].key = connections[i].key
             /\ [connections'[i].value EXCEPT
                    !.lastSyncAt = connections[i].value.lastSyncAt]
                  = connections[i].value
             /\ connections'[i] # connections[i] =>
                  /\ ServedStep
                  /\ IsPatch(last'[1].request)
                  /\ last'[1].status = 200
                  /\ last'[1].request.id[1] = connections[i].key
    ]_vars

C6_Witness ==
    /\ last # None
    /\ IsPatch(last[1].request)
    /\ last[1].request.id = Some("conn_001")
    /\ last[1].status = 200
    /\ connections[1].value.lastSyncAt = Some(EpochIso)
    /\ connections[1].value.credentials = DUMMY_CONNECTIONS[1].value.credentials
    /\ connections[2] = DUMMY_CONNECTIONS[2]

\* C7: a lastSyncAt that is set is never None again, and one that is None
\* becomes set only by a successful update of that record.
C7_SyncIsOneWay ==
    [][\A i \in DOMAIN connections :
          /\ connections[i].value.lastSyncAt # None =>
               connections'[i].value.lastSyncAt # None
          /\ (/\ connections[i].value.lastSyncAt = None
              /\ connections'[i].value.lastSyncAt # None) =>
               /\ ServedStep
               /\ IsPatch(last'[1].request)
               /\ last'[1].status = 200
               /\ last'[1].request.id[1] = connections[i].key
    ]_vars

\* a PATCH with lastSyncAt null was served for a record already synced
C7_Witness ==
    /\ last # None
    /\ IsPatch(last[1].request)
    /\ last[1].request.id = Some("conn_001")
    /\ last[1].request.field = Some(JsonNull)
    /\ last[1].status = 422
    /\ connections[1].value.lastSyncAt # None

\* the strings datetime.isoformat() produces
IsCanonicalIso(s) ==
    \E date \in DateLexemes, time \in TimeLexemes,
       offset \in {None, Some(0), Some(60)} :
        s = isoformat([date |-> date, time |-> time, utcoffset |-> offset])

\* C8: every stored lastSyncAt is None or a string in the canonical ISO-8601
\* form.
C8_StoredIsCanonical ==
    \A i \in DOMAIN connections :
        \/ connections[i].value.lastSyncAt = None
        \/ IsCanonicalIso(connections[i].value.lastSyncAt[1])

C10_LastWriteWins ==
    /\ [](\A i \in DOMAIN connections :
            lastUpdate[connections[i].key] # None =>
                connections[i].value.lastSyncAt = lastUpdate[connections[i].key])
    /\ [][ServedStep =>
          LET e == last'[1] IN
          (IsPatch(e.request) /\ e.status = 200) =>
             /\ e.body.lastSyncAt = Normalize(e.request.field)
             /\ \A i \in DOMAIN connections :
                   IF connections[i].key = e.request.id[1]
                   THEN connections'[i].value.lastSyncAt
                          = Some(Normalize(e.request.field))
                   ELSE connections'[i] = connections[i]
       ]_vars

\* no request is in flight; the update served last had been overtaken by an
\* update of the same record with another timestamp, and its own is stored
C10_Witness ==
    /\ \A c \in Clients : inflight[c] = None
    /\ last # None
    /\ IsPatch(last[1].request)
    /\ last[1].status = 200
    /\ last[1].raced # None
    /\ last[1].raced # Some(last[1].body.lastSyncAt)
    /\ dict_get(connections, last[1].request.id[1])[1].lastSyncAt
         = Some(last[1].body.lastSyncAt)

====
